---- MODULE Spec2Model ----
(***************************************************************************)
(* The self-sorting on-screen keyboard of abookout/sordid-keyboard.         *)
(*                                                                         *)
(* Two variants of the program exist in the repository:                    *)
(*   "autosort" : src/autosort.js, 3 rows, row-count reflow                *)
(*   "part000"  : src/unnamed/part_000, 4 rows, width-budget reflow        *)
(* A third configuration, "overwide", is the part_000 program built from a *)
(* one-letter-per-row DEFAULT_LAYOUT, so that the spacebar is wider than   *)
(* the budget of every row above the last one.  Two more configurations    *)
(* run the width-budget program next to the row-count procedure on one     *)
(* layout: "uniform" (every key KEY_WIDTH wide) and "mixed" (the 3-row      *)
(* layout and widths of autosort.js, budgets the initial row widths).      *)
(* On a layout of fewer than 4 rows the part_000 constructor throws when   *)
(* it adds the spacebar to row 3; the rows built until then stay on the    *)
(* page and their keys keep their pointerup listener.                      *)
(*                                                                         *)
(* Rows are numbered from 0 as in the code (functions over 0..n-1); the    *)
(* keys of one row are a sequence, so column c of the code is index c+1.   *)
(* A key and its DOM element keyEl are one identity, named by a string.    *)
(***************************************************************************)
EXTENDS Integers, Sequences, FiniteSets, TLC

VARIABLES
  variant,           \* which program is running
  keys,              \* keyRows[r].keys      : row -> sequence of keys
  rowEl,             \* keyRows[r].rowEl.children : row -> sequence of elements
  defaultRowWidth,   \* keyRows[r].defaultRowWidth (part_000 only)
  pc,                \* position inside sortKeys: "idle", "reflow", "threw"
  pressedKey,        \* argument of the running / last sortKeys call
  oldRow, oldCol,    \* result of getKeyPos(pressedKey)
  i,                 \* loop variable of the reflow loop
  oldFlexItemsInfo,  \* snapshot before the moves
  newFlexItemsInfo,  \* snapshot after the moves
  animated,          \* result of the last animateFlexItems call
  assertOk,          \* outcome of the console.assert of the last moveKey
  before,            \* history: keys at the start of the running / last call
  whileMoves,        \* history: moveKey calls made by the current while loop
  whileRow,          \* history: keys of row i when its while loop began
  presses,           \* number of presses handled so far
  text,              \* textBoxEl.value, a sequence of characters
  pressLog,          \* history: the keys pressed, in order
  log,               \* history: the calls made by the running / last sortKeys
  consoleErrors,     \* number of console.error calls
  twin,              \* the same layout under the row-count procedure
  constructorThrew,  \* whether new Keyboard(...) ended in a TypeError
  hoveredEl,         \* KeyPressPreview.hoveredEl: a key element or null
  pressedEls,        \* the key elements whose classList holds "pressed"
  preview,           \* previewEl: its innerText and whether it is on screen
  activeTouches,     \* number of fingers on the screen
  lastTouch,         \* history: the touch or pointer-feedback event handled last
  touchErrors,       \* number of TypeErrors thrown by touch handlers
  touchEvents        \* number of touch and pointer-feedback events handled

vars == <<variant, keys, rowEl, defaultRowWidth, pc, pressedKey, oldRow, oldCol,
          i, oldFlexItemsInfo, newFlexItemsInfo, animated, assertOk, before,
          whileMoves, whileRow, presses, text, pressLog, log, consoleErrors,
          twin, constructorThrew, hoveredEl, pressedEls, preview, activeTouches, lastTouch,
          touchErrors, touchEvents>>

\* the state of the Keyboard, its rows and the text box
keyboardVars == <<variant, keys, rowEl, defaultRowWidth, pc, pressedKey, oldRow,
                  oldCol, i, oldFlexItemsInfo, newFlexItemsInfo, animated,
                  assertOk, before, whileMoves, whileRow, presses, text,
                  pressLog, log, consoleErrors, twin, constructorThrew>>

\* the state of the KeyPressPreview
touchVars == <<hoveredEl, pressedEls, preview, activeTouches, lastTouch,
               touchErrors, touchEvents>>

\* Number of key presses explored from the constructed keyboard.
MaxPresses == 2

\* Number of touch and pointer-feedback events explored from the constructed
\* keyboard.
MaxTouchEvents == 4

Null == "null"
Undefined == "undefined"

-----------------------------------------------------------------------------
(* Constants of the two source files *)

KEY_WIDTH == 50

BACKSPACE_WIDTH(v) == IF v \in {"autosort", "mixed"} THEN 80 ELSE 100

ENTER_WIDTH(v) == IF v \in {"autosort", "mixed"} THEN 60 ELSE 100

SPACEBAR_WIDTH == 200

Backspace == "backspace"
Enter == "enter"
Spacebar == "spacebar"

\* DEFAULT_LAYOUT, each row string split into its characters
DEFAULT_LAYOUT(v) ==
  CASE v = "autosort" ->
         <<  <<"q","w","e","r","t","y","u","i","o","p">>,
             <<"a","s","d","f","g","h","j","k","l">>,
             <<"z","x","c","v","b","n","m">>  >>
    [] v = "part000" ->
         <<  <<"q","w","e","r","t","y","u","i","o","p">>,
             <<"a","s","d","f","g","h","j","k","l">>,
             <<"z","x","c","v","b","n","m">>,
             <<>>  >>
    [] v = "overwide" ->
         <<  <<"a">>, <<"b">>, <<"c">>, <<>>  >>
    [] v = "mixed" ->
         <<  <<"q","w","e","r","t","y","u","i","o","p">>,
             <<"a","s","d","f","g","h","j","k","l">>,
             <<"z","x","c","v","b","n","m">>  >>
    [] v = "uniform" ->
         <<  <<"q","w","e">>, <<"a","s">>, <<"z">>, <<>>  >>

NUM_ROWS(v) == Len(DEFAULT_LAYOUT(v))

Rows(v) == 0 .. (NUM_ROWS(v) - 1)

\* variation of Width: the width option is ignored, every key is KEY_WIDTH
Width_default(v, k) == KEY_WIDTH

\* Key constructor: this.width = width || KEY_WIDTH
Width(v, k) ==
  CASE v = "uniform" -> KEY_WIDTH
    [] k = Backspace -> BACKSPACE_WIDTH(v)
    [] k = Enter -> ENTER_WIDTH(v)
    [] k = Spacebar -> SPACEBAR_WIDTH
    [] OTHER -> KEY_WIDTH

-----------------------------------------------------------------------------
(* Array and DOM primitives used by the code *)

RECURSIVE SumWidths(_, _)
\* keys.reduce((prev, cur) => prev + cur.width, 0)
SumWidths(v, s) ==
  IF s = <<>> THEN 0 ELSE Width(v, Head(s)) + SumWidths(v, Tail(s))

\* KeyboardRow.rowWidth
rowWidth(v, s) == SumWidths(v, s)

\* Array.prototype.findIndex((k) => k === key): first index, or -1
findIndex(s, key) ==
  IF \E n \in 1..Len(s) : s[n] = key
    THEN (CHOOSE n \in 1..Len(s) : s[n] = key /\ \A m \in 1..(n-1) : s[m] # key) - 1
    ELSE -1

\* start index of Array.prototype.splice: negative counts from the end, clamped
SpliceStart(s, start) ==
  IF start < 0
    THEN (IF Len(s) + start < 0 THEN 0 ELSE Len(s) + start)
    ELSE (IF start > Len(s) THEN Len(s) ELSE start)

\* variation of spliceRemove: the element after start is the one removed
spliceRemove_next(s, start) ==
  LET a == SpliceStart(s, start) + 1
  IN  IF a >= Len(s) THEN s
      ELSE SubSeq(s, 1, a) \o SubSeq(s, a + 2, Len(s))

\* arr.splice(start, 1)
spliceRemove(s, start) ==
  LET a == SpliceStart(s, start)
  IN  IF a >= Len(s) THEN s
      ELSE SubSeq(s, 1, a) \o SubSeq(s, a + 2, Len(s))

\* arr.splice(start, 0, e)
spliceInsert(s, start, e) ==
  LET a == SpliceStart(s, start)
  IN  SubSeq(s, 1, a) \o <<e>> \o SubSeq(s, a + 1, Len(s))

\* HTMLCollection.item(index): the element, or null when out of range
item(s, index) ==
  IF index >= 0 /\ index < Len(s) THEN s[index + 1] ELSE Null

\* Node.removeChild(el) on the children list (el is a child)
removeChild(s, el) == SelectSeq(s, LAMBDA x : x # el)

\* variation of insertBefore: appendChild, the reference node is ignored
insertBefore_append(s, el, ref) == Append(s, el)

\* Node.insertBefore(el, ref): before ref, or at the end when ref is null
insertBefore(s, el, ref) ==
  IF ref = Null THEN Append(s, el)
  ELSE LET n == findIndex(s, ref)
       IN  SubSeq(s, 1, n) \o <<el>> \o SubSeq(s, n + 1, Len(s))

\* does el occur in the sequence
Has(s, el) == \E n \in 1..Len(s) : s[n] = el

\* the set of members of a sequence
Range(s) == { s[n] : n \in 1..Len(s) }

RECURSIVE Flatten(_, _, _)
\* rows r .. n-1 of a row -> sequence function, concatenated top to bottom
Flatten(f, r, n) ==
  IF r >= n THEN <<>> ELSE f[r] \o Flatten(f, r + 1, n)

\* reading order of a whole layout
ReadingOrder(f) == Flatten(f, 0, Cardinality(DOMAIN f))

-----------------------------------------------------------------------------
(* Keyboard constructor *)

\* the special key the constructor adds at the end of row r, if any
SpecialKey(v, r) ==
  CASE r = 0 -> Backspace
    [] r = 1 -> Enter
    [] r = 3 /\ v # "autosort" -> Spacebar
    [] OTHER -> Null

\* keyRows[r].keys when the constructor returns
InitialKeys(v) ==
  [r \in Rows(v) |->
     IF SpecialKey(v, r) = Null THEN DEFAULT_LAYOUT(v)[r + 1]
     ELSE Append(DEFAULT_LAYOUT(v)[r + 1], SpecialKey(v, r))]

\* keyRows[r].rowEl.children when the constructor returns: the Key
\* constructor appends each keyEl to parentEl in creation order
InitialRowEl(v) ==
  [r \in Rows(v) |->
     IF SpecialKey(v, r) = Null THEN DEFAULT_LAYOUT(v)[r + 1]
     ELSE Append(DEFAULT_LAYOUT(v)[r + 1], SpecialKey(v, r))]

\* KeyboardRow constructor of part_000: the budget is the width of the keys
\* the row is created with
KeyboardRow(v, ks) == [keys |-> ks, defaultRowWidth |-> rowWidth(v, ks)]

\* variation of addDefaultKey: the key is pushed, the budget is not recomputed
addDefaultKey_noRecalc(v, row, key) ==
  [keys |-> Append(row.keys, key), defaultRowWidth |-> row.defaultRowWidth]

\* KeyboardRow.addDefaultKey: push the key, then recompute the budget
addDefaultKey(v, row, key) ==
  LET ks == Append(row.keys, key)
  IN  [keys |-> ks, defaultRowWidth |-> rowWidth(v, ks)]

\* row r as the part_000 constructor leaves it: the KeyboardRow of the letters,
\* then addDefaultKey for the rows that have a special key
ConstructedRow(v, r) ==
  IF SpecialKey(v, r) = Null THEN KeyboardRow(v, DEFAULT_LAYOUT(v)[r + 1])
  ELSE addDefaultKey(v, KeyboardRow(v, DEFAULT_LAYOUT(v)[r + 1]), SpecialKey(v, r))

\* keyRows[r].defaultRowWidth when the constructor returns
\* (autosort.js rows have no such field)
InitialDefaultRowWidth(v) ==
  IF v = "autosort" THEN <<>>
  ELSE [r \in Rows(v) |-> ConstructedRow(v, r).defaultRowWidth]

\* the rows the part_000 constructor calls addDefaultKey on
DefaultKeyRows == {0, 1, 3}

\* the part_000 constructor reads this.keyRows[r].addDefaultKey for r = 0, 1
\* and 3 whatever DEFAULT_LAYOUT is: a row that does not exist is undefined
\* and the call throws a TypeError; the rest of the constructor (spacers,
\* registerTouchEvents) is then not run.  autosort.js pushes its two special
\* keys to rows 0 and 1 only.
ConstructorThrows(v) ==
  v # "autosort" /\ \E r \in DefaultKeyRows : r \notin Rows(v)

\* every key created by the constructor
AllKeys(v) == UNION { Range(InitialKeys(v)[r]) : r \in Rows(v) }

-----------------------------------------------------------------------------
(* Keyboard methods *)

\* variation of getKeyPos: the found index is not compared with -1 in the last
\* row, so a key that is in no row is reported at column -1 of that row
getKeyPos_noCheck(v, ks, key) ==
  IF \E r \in Rows(v) : findIndex(ks[r], key) # -1
    THEN LET r == CHOOSE r \in Rows(v) :
                    /\ findIndex(ks[r], key) # -1
                    /\ \A q \in Rows(v) : q < r => findIndex(ks[q], key) = -1
         IN  [found |-> TRUE, row |-> r, col |-> findIndex(ks[r], key)]
    ELSE [found |-> TRUE, row |-> NUM_ROWS(v) - 1, col |-> -1]

\* variation of getKeyPos: the column is reported counting from 1
getKeyPos_oneBased(v, ks, key) ==
  IF \E r \in Rows(v) : findIndex(ks[r], key) # -1
    THEN LET r == CHOOSE r \in Rows(v) :
                    /\ findIndex(ks[r], key) # -1
                    /\ \A q \in Rows(v) : q < r => findIndex(ks[q], key) = -1
         IN  [found |-> TRUE, row |-> r, col |-> findIndex(ks[r], key) + 1]
    ELSE [found |-> FALSE, row |-> -1, col |-> -1]

\* getKeyPos: first row (top to bottom) holding the key, and its index there;
\* when no row holds it, console.error and the result is undefined (found is
\* FALSE, and there is no row or col to read)
getKeyPos(v, ks, key) ==
  IF \E r \in Rows(v) : findIndex(ks[r], key) # -1
    THEN LET r == CHOOSE r \in Rows(v) :
                    /\ findIndex(ks[r], key) # -1
                    /\ \A q \in Rows(v) : q < r => findIndex(ks[q], key) = -1
         IN  [found |-> TRUE, row |-> r, col |-> findIndex(ks[r], key)]
    ELSE [found |-> FALSE, row |-> -1, col |-> -1]

\* variation of moveKey: the key is pushed at the end of the target row
moveKey_push(ks, els, key, fromRow, fromCol, toRow, toCol) ==
  LET ok   == item(els[fromRow], fromCol) = key
      els1 == [els EXCEPT ![fromRow] = removeChild(@, key)]
      ks1  == [ks EXCEPT ![fromRow] = spliceRemove(@, fromCol)]
      els2 == [els1 EXCEPT ![toRow] = Append(@, key)]
      ks2  == [ks1 EXCEPT ![toRow] = Append(@, key)]
  IN  [keys |-> ks2, rowEl |-> els2, assertOk |-> ok]

\* variation of moveKey: the element is not put back into the DOM
moveKey_noDomInsert(ks, els, key, fromRow, fromCol, toRow, toCol) ==
  LET ok   == item(els[fromRow], fromCol) = key
      els1 == [els EXCEPT ![fromRow] = removeChild(@, key)]
      ks1  == [ks EXCEPT ![fromRow] = spliceRemove(@, fromCol)]
      ks2  == [ks1 EXCEPT ![toRow] = spliceInsert(@, toCol, key)]
  IN  [keys |-> ks2, rowEl |-> els1, assertOk |-> ok]

\* variation of moveKey: the key is not removed from the array of its old row
moveKey_noSplice(ks, els, key, fromRow, fromCol, toRow, toCol) ==
  LET ok   == item(els[fromRow], fromCol) = key
      els1 == [els EXCEPT ![fromRow] = removeChild(@, key)]
      els2 == [els1 EXCEPT ![toRow] = insertBefore(@, key, item(els1[toRow], toCol))]
      ks2  == [ks EXCEPT ![toRow] = spliceInsert(@, toCol, key)]
  IN  [keys |-> ks2, rowEl |-> els2, assertOk |-> ok]

\* moveKey: the assert, then DOM removal, array removal, DOM insertion, array
\* insertion, in the order of the code
moveKey(ks, els, key, fromRow, fromCol, toRow, toCol) ==
  LET ok   == item(els[fromRow], fromCol) = key
      els1 == [els EXCEPT ![fromRow] = removeChild(@, key)]
      ks1  == [ks EXCEPT ![fromRow] = spliceRemove(@, fromCol)]
      els2 == [els1 EXCEPT ![toRow] = insertBefore(@, key, item(els1[toRow], toCol))]
      ks2  == [ks1 EXCEPT ![toRow] = spliceInsert(@, toCol, key)]
  IN  [keys |-> ks2, rowEl |-> els2, assertOk |-> ok]

\* getFlexItemsInfo: one entry per .key element of the keyboard, in document
\* order (the rectangle comes from the browser's layout and is not modelled)
getFlexItemsInfo(v, els) == Flatten(els, 0, NUM_ROWS(v))

\* animateFlexItems: for each new entry the old entry of the same element is
\* looked up; a missing one is undefined and reading its x throws
animateFlexItems(oldInfo, newInfo) ==
  [n \in 1..Len(newInfo) |->
     [element |-> newInfo[n],
      old     |-> IF Has(oldInfo, newInfo[n]) THEN newInfo[n] ELSE Undefined]]

\* variation of lastCol: keysArr.length - 2
lastCol_penultimate(keysArr) == Len(keysArr) - 2

\* variation of lastCol: the first key of the row
lastCol_first(keysArr) == 0

\* keysArr.length - 1, the column of the last key of a row
lastCol(keysArr) == Len(keysArr) - 1

\* variation of ReflowLimit: the loop visits every row but the last, whatever
\* the row of the pressed key
ReflowLimit_all(v, orow) == NUM_ROWS(v) - 1

\* variation of ReflowLimit: the loop stops one row early
ReflowLimit_short(v, orow) == IF v = "autosort" THEN orow ELSE NUM_ROWS(v) - 2

\* bound of the reflow loop: i < oldRow (autosort) or i < keyRows.length - 1
ReflowLimit(v, orow) == IF v = "autosort" THEN orow ELSE NUM_ROWS(v) - 1

\* variation of OverBudget: >= instead of >
OverBudget_geq(v, ks, drw, r) == rowWidth(v, ks[r]) >= drw[r]

\* variation of OverBudget: the loop also stops when one key is left
OverBudget_keepOne(v, ks, drw, r) ==
  rowWidth(v, ks[r]) > drw[r] /\ Len(ks[r]) > 1

\* condition of the inner while loop of part_000
OverBudget(v, ks, drw, r) == rowWidth(v, ks[r]) > drw[r]

-----------------------------------------------------------------------------
(* Typing: the handlers a key runs before it is re-sorted *)

\* Keyboard.backspace: value.slice(0, -1)
backspace(t) == SubSeq(t, 1, Len(t) - 1)

\* Keyboard.enter: value += "\n"
enter(t) == Append(t, "\n")

\* Keyboard.spacebar: value += " "
spacebar(t) == Append(t, " ")

\* variation of typeKey: every key without exception appends its label
typeKey_label(t, k) == Append(t, k)

\* first statement of Key.onPress: the onPress the key was built with, or
\* else value += displayStr
typeKey(t, k) ==
  CASE k = Backspace -> backspace(t)
    [] k = Enter -> enter(t)
    [] k = Spacebar -> spacebar(t)
    [] OTHER -> Append(t, k)

-----------------------------------------------------------------------------
(* The calls of one sortKeys run, as recorded in log *)

\* getKeyPos(pressedKey) was called
EvLocate(k) == [op |-> "getKeyPos", key |-> k]

\* getFlexItemsInfo() was called and returned info
EvSnapshot(info) == [op |-> "getFlexItemsInfo", info |-> info]

\* moveKey(key, fromRow, fromCol, toRow, toCol) was called on the rows ks;
\* atCol is keys[fromCol] of the source row and rowLen its length at the call,
\* assertOk the outcome of the console.assert
EvMove(ks, key, fromRow, fromCol, toRow, toCol, ok) ==
  [op |-> "moveKey", key |-> key, fromRow |-> fromRow, fromCol |-> fromCol,
   toRow |-> toRow, toCol |-> toCol, assertOk |-> ok,
   atCol |-> item(ks[fromRow], fromCol), rowLen |-> Len(ks[fromRow])]

\* animateFlexItems(old, new) was called
EvAnimate == [op |-> "animateFlexItems"]

\* variation of sortKeysHead: the first snapshot is taken after the promotion
sortKeysHead_snapshotLate(v, ks, els, k, pos) ==
  LET m    == moveKey(ks, els, k, pos.row, pos.col, 0, 0)
      info == getFlexItemsInfo(v, m.rowEl)
  IN  [keys |-> m.keys, rowEl |-> m.rowEl, assertOk |-> m.assertOk,
       oldFlexItemsInfo |-> info,
       log |-> << EvLocate(k),
                  EvMove(ks, k, pos.row, pos.col, 0, 0, m.assertOk),
                  EvSnapshot(info) >>]

\* sortKeys from the located position pos to the start of the reflow loop:
\* the first snapshot, then the promotion of the pressed key to (0, 0)
sortKeysHead(v, ks, els, k, pos) ==
  LET info == getFlexItemsInfo(v, els)
      m    == moveKey(ks, els, k, pos.row, pos.col, 0, 0)
  IN  [keys |-> m.keys, rowEl |-> m.rowEl, assertOk |-> m.assertOk,
       oldFlexItemsInfo |-> info,
       log |-> << EvLocate(k),
                  EvSnapshot(info),
                  EvMove(ks, k, pos.row, pos.col, 0, 0, m.assertOk) >>]

-----------------------------------------------------------------------------
(* The row-count procedure as one function, for the twin layout *)

RECURSIVE RowCountLoop(_, _, _)
\* the for loop of autosort.js from i = n: the last key of row n goes to the
\* front of row n+1
RowCountLoop(st, n, limit) ==
  IF n >= limit THEN st
  ELSE LET keysArr == st.keys[n]
       IN  RowCountLoop(moveKey(st.keys, st.rowEl, item(keysArr, lastCol(keysArr)),
                                n, lastCol(keysArr), n + 1, 0),
                        n + 1, limit)

\* sortKeys of autosort.js on the layout tw
sortKeysRowCount(v, tw, k) ==
  LET pos == getKeyPos(v, tw.keys, k)
      m   == moveKey(tw.keys, tw.rowEl, k, pos.row, pos.col, 0, 0)
      r   == RowCountLoop(m, 0, ReflowLimit("autosort", pos.row))
  IN  IF pos.found THEN [keys |-> r.keys, rowEl |-> r.rowEl] ELSE tw

-----------------------------------------------------------------------------
(* State machine *)

-----------------------------------------------------------------------------
\* KeyPressPreview (part_000)

\* what document.elementFromPoint can return under a finger: some of the key
\* elements, an element that is not a key, or nothing
TouchTargets == {"q", "a", Spacebar, "textbox", Null}

\* show(keyEl): the preview carries the key's text above the key
show(keyEl) == [innerText |-> keyEl, top |-> "aboveKey"]

\* hide(): the preview is emptied and put off the screen; the constructor
\* leaves it the same way
hide == [innerText |-> "", top |-> "offScreen"]

\* _keyElFromTouchEvent: the element under the first touch when it is a key,
\* null otherwise
keyElFromTouchEvent(v, hit) ==
  IF hit = Null \/ hit \notin AllKeys(v) THEN Null ELSE hit

\* whether the keys carry onpointerdown / onpointerover / onpointerout /
\* onpointerup: registerPointerEvents is called by every Key constructor of
\* autosort.js, registerTouchEvents at the end of the part_000 constructor
PointerEventsRegistered == variant = "autosort" \/ ~constructorThrew

\* whether the document carries the touchstart / touchmove / touchend
\* listeners: only registerTouchEvents of part_000 adds them
TouchEventsRegistered == variant # "autosort" /\ ~constructorThrew

\* the listeners of a pointerup on key k that run after Key.onPress, whether
\* it returned or threw: keyEl.onpointerup removes the pressed class of k,
\* the document listener hides the preview
PointerUpRest(k) ==
  /\ pressedEls' = (IF PointerEventsRegistered THEN pressedEls \ {k}
                                               ELSE pressedEls)
  /\ preview' = hide
  /\ UNCHANGED <<hoveredEl, activeTouches, lastTouch, touchErrors, touchEvents>>

\* a Key object that the constructor did not put on the keyboard
ForeignKeys == {"foreign"}

InitFor(v) ==
  /\ variant = v
  /\ keys = InitialKeys(v)
  /\ rowEl = InitialRowEl(v)
  /\ defaultRowWidth = InitialDefaultRowWidth(v)
  /\ pc = "idle"
  /\ pressedKey = Null
  /\ oldRow = 0
  /\ oldCol = 0
  /\ i = 0
  /\ oldFlexItemsInfo = <<>>
  /\ newFlexItemsInfo = <<>>
  /\ animated = <<>>
  /\ assertOk = TRUE
  /\ before = InitialKeys(v)
  /\ whileMoves = 0
  /\ whileRow = <<>>
  /\ presses = 0
  /\ text = <<>>
  /\ pressLog = <<>>
  /\ log = <<>>
  /\ consoleErrors = 0
  /\ twin = [keys |-> InitialKeys(v), rowEl |-> InitialRowEl(v)]
  /\ constructorThrew = ConstructorThrows(v)
  /\ hoveredEl = Null
  /\ pressedEls = {}
  /\ preview = hide
  /\ activeTouches = 0
  /\ lastTouch = Null
  /\ touchErrors = 0
  /\ touchEvents = 0

Init == \E v \in {"autosort", "part000"} : InitFor(v)

InitOverwide == InitFor("overwide")

InitAutosort == InitFor("autosort")

InitPart000 == InitFor("part000")

InitTwin == \E v \in {"uniform", "mixed"} : InitFor(v)

\* sortKeys up to the start of the reflow loop: locate, snapshot, promote;
\* when the key is in no row, getKeyPos logs the error and returns undefined,
\* and destructuring it throws
Press(k) ==
  /\ pc \in {"idle", "threw"}
  /\ presses < MaxPresses
  /\ LET pos == getKeyPos(variant, keys, k)
         h   == sortKeysHead(variant, keys, rowEl, k, pos)
     IN  IF pos.found
           THEN /\ oldRow' = pos.row
                /\ oldCol' = pos.col
                /\ oldFlexItemsInfo' = h.oldFlexItemsInfo
                /\ keys' = h.keys
                /\ rowEl' = h.rowEl
                /\ assertOk' = h.assertOk
                /\ whileRow' = h.keys[0]
                /\ log' = h.log
                /\ pc' = "reflow"
                /\ UNCHANGED consoleErrors
           ELSE /\ consoleErrors' = consoleErrors + 1
                /\ log' = << EvLocate(k) >>
                /\ pc' = "threw"
                /\ UNCHANGED <<keys, rowEl, oldRow, oldCol, oldFlexItemsInfo,
                               assertOk, whileRow>>
  /\ pressedKey' = k
  /\ before' = keys
  /\ i' = 0
  /\ whileMoves' = 0
  /\ presses' = presses + 1
  /\ UNCHANGED <<variant, constructorThrew,
                 defaultRowWidth, newFlexItemsInfo, animated>>

\* the pointerup listener Key.onPress: type the key, then re-sort it; the
\* other pointerup listeners run when sortKeys is over, at once when it threw
onPress(k) ==
  /\ text' = typeKey(text, k)
  /\ pressLog' = Append(pressLog, k)
  /\ Press(k)
  /\ IF getKeyPos(variant, keys, k).found THEN UNCHANGED touchVars
                                          ELSE PointerUpRest(k)

\* one iteration of the for loop of autosort.js: the last key of row i goes to
\* the front of row i+1
RowCountShed ==
  /\ pc = "reflow"
  /\ variant = "autosort"
  /\ i < ReflowLimit(variant, oldRow)
  /\ LET keysArr == keys[i]
         key     == item(keysArr, lastCol(keysArr))
         m       == moveKey(keys, rowEl, key, i, lastCol(keysArr), i + 1, 0)
     IN  IF keysArr = <<>>
           THEN \* key is undefined: key.keyEl throws inside moveKey
                /\ pc' = "threw"
                /\ UNCHANGED <<keys, rowEl, assertOk, i, log>>
                /\ PointerUpRest(pressedKey)
           ELSE /\ UNCHANGED touchVars
                /\ keys' = m.keys
                /\ rowEl' = m.rowEl
                /\ assertOk' = m.assertOk
                /\ log' = Append(log, EvMove(keys, key, i, lastCol(keysArr),
                                             i + 1, 0, m.assertOk))
                /\ i' = i + 1
                /\ pc' = "reflow"
  /\ UNCHANGED <<variant, constructorThrew,
                 defaultRowWidth, pressedKey, oldRow, oldCol,
                 oldFlexItemsInfo, newFlexItemsInfo, animated, before,
                 whileMoves, whileRow, presses, text, pressLog, consoleErrors,
                 twin>>

\* variation of WidthShed: moveKey adds the key to its new row with
\* addDefaultKey semantics, so the budget of that row is recomputed
WidthShed_recalc ==
  /\ pc = "reflow"
  /\ variant # "autosort"
  /\ i < ReflowLimit(variant, oldRow)
  /\ OverBudget(variant, keys, defaultRowWidth, i)
  /\ keys[i] # <<>>
  /\ LET keysArr == keys[i]
         lastKey == item(keysArr, lastCol(keysArr))
         m       == moveKey(keys, rowEl, lastKey, i, lastCol(keysArr), i + 1, 0)
     IN  /\ keys' = m.keys
         /\ rowEl' = m.rowEl
         /\ assertOk' = m.assertOk
         /\ log' = Append(log, EvMove(keys, lastKey, i, lastCol(keysArr),
                                      i + 1, 0, m.assertOk))
         /\ defaultRowWidth' =
              [defaultRowWidth EXCEPT ![i + 1] = rowWidth(variant, m.keys[i + 1])]
  /\ whileMoves' = whileMoves + 1
  /\ UNCHANGED <<variant, constructorThrew,
                 pc, pressedKey, oldRow, oldCol, i,
                 oldFlexItemsInfo, newFlexItemsInfo, animated, before,
                 whileRow, presses, text, pressLog, consoleErrors, twin>>
  /\ UNCHANGED touchVars

\* one iteration of the while loop of part_000: row i is over its budget, its
\* last key goes to the front of row i+1
WidthShed ==
  /\ pc = "reflow"
  /\ variant # "autosort"
  /\ i < ReflowLimit(variant, oldRow)
  /\ OverBudget(variant, keys, defaultRowWidth, i)
  /\ LET keysArr == keys[i]
         lastKey == item(keysArr, lastCol(keysArr))
         m       == moveKey(keys, rowEl, lastKey, i, lastCol(keysArr), i + 1, 0)
     IN  IF keysArr = <<>>
           THEN \* lastKey is undefined: key.keyEl throws inside moveKey
                /\ pc' = "threw"
                /\ UNCHANGED <<keys, rowEl, assertOk, log>>
                /\ PointerUpRest(pressedKey)
           ELSE /\ UNCHANGED touchVars
                /\ keys' = m.keys
                /\ rowEl' = m.rowEl
                /\ assertOk' = m.assertOk
                /\ log' = Append(log, EvMove(keys, lastKey, i, lastCol(keysArr),
                                             i + 1, 0, m.assertOk))
                /\ pc' = "reflow"
  /\ whileMoves' = whileMoves + 1
  /\ UNCHANGED <<variant, constructorThrew,
                 defaultRowWidth, pressedKey, oldRow, oldCol, i,
                 oldFlexItemsInfo, newFlexItemsInfo, animated, before,
                 whileRow, presses, text, pressLog, consoleErrors, twin>>

\* the while condition of row i is false: the for loop goes on to row i+1
WidthNextRow ==
  /\ pc = "reflow"
  /\ variant # "autosort"
  /\ i < ReflowLimit(variant, oldRow)
  /\ ~OverBudget(variant, keys, defaultRowWidth, i)
  /\ i' = i + 1
  /\ whileMoves' = 0
  /\ whileRow' = keys[i + 1]
  /\ UNCHANGED <<variant, constructorThrew,
                 keys, rowEl, defaultRowWidth, pc, pressedKey, oldRow,
                 oldCol, oldFlexItemsInfo, newFlexItemsInfo, animated, assertOk,
                 before, presses, text, pressLog, log, consoleErrors, twin>>
  /\ UNCHANGED touchVars

\* the reflow loop is over: second snapshot, animation, return; Key.onPress
\* returns and the other listeners of the pointerup run
Finish ==
  /\ pc = "reflow"
  /\ i >= ReflowLimit(variant, oldRow)
  /\ newFlexItemsInfo' = getFlexItemsInfo(variant, rowEl)
  /\ animated' = animateFlexItems(oldFlexItemsInfo, getFlexItemsInfo(variant, rowEl))
  /\ log' = log \o << EvSnapshot(getFlexItemsInfo(variant, rowEl)), EvAnimate >>
  /\ pc' = "idle"
  /\ UNCHANGED <<variant, constructorThrew,
                 keys, rowEl, defaultRowWidth, pressedKey, oldRow,
                 oldCol, i, oldFlexItemsInfo, assertOk, before, whileMoves,
                 whileRow, presses, text, pressLog, consoleErrors, twin>>
  /\ PointerUpRest(pressedKey)

\* a pointerup on one of the keys of the keyboard
PressAny == \E k \in AllKeys(variant) : onPress(k) /\ UNCHANGED twin

\* the same press, handled by the program and by the twin layout
PressTwin ==
  \E k \in AllKeys(variant) :
    onPress(k) /\ twin' = sortKeysRowCount(variant, twin, k)

\* sortKeys called with a Key that is in no row
SortForeign ==
  \E k \in ForeignKeys :
    Press(k) /\ UNCHANGED <<text, pressLog, twin>> /\ UNCHANGED touchVars

\* touchstart: the touched key becomes pressed, previewed and hovered
TouchStart(hit) ==
  /\ TouchEventsRegistered
  /\ pc \in {"idle", "threw"}
  /\ touchEvents < MaxTouchEvents
  /\ LET el == keyElFromTouchEvent(variant, hit)
     IN  IF el = Null
           THEN UNCHANGED <<hoveredEl, pressedEls, preview>>
           ELSE /\ pressedEls' = pressedEls \cup {el}
                /\ preview' = show(el)
                /\ hoveredEl' = el
  /\ activeTouches' = activeTouches + 1
  /\ lastTouch' = "touchstart"
  /\ touchEvents' = touchEvents + 1
  /\ UNCHANGED touchErrors
  /\ UNCHANGED keyboardVars

\* touchmove: over a new key, the hovered key is released and the new one
\* becomes pressed, previewed and hovered
TouchMove(hit) ==
  /\ TouchEventsRegistered
  /\ pc \in {"idle", "threw"}
  /\ touchEvents < MaxTouchEvents
  /\ activeTouches >= 1
  /\ LET el == keyElFromTouchEvent(variant, hit)
     IN  IF el = Null \/ el = hoveredEl
           THEN UNCHANGED <<hoveredEl, pressedEls, preview>>
           ELSE /\ pressedEls' =
                     (IF hoveredEl # Null THEN pressedEls \ {hoveredEl}
                                          ELSE pressedEls) \cup {el}
                /\ preview' = show(el)
                /\ hoveredEl' = el
  /\ lastTouch' = "touchmove"
  /\ touchEvents' = touchEvents + 1
  /\ UNCHANGED <<activeTouches, touchErrors>>
  /\ UNCHANGED keyboardVars

\* touchend: this.hoveredEl.classList is read without a check, so a null
\* hoveredEl throws a TypeError before anything is changed
TouchEnd ==
  /\ TouchEventsRegistered
  /\ pc \in {"idle", "threw"}
  /\ touchEvents < MaxTouchEvents
  /\ activeTouches >= 1
  /\ IF hoveredEl = Null
       THEN /\ touchErrors' = touchErrors + 1
            /\ UNCHANGED <<hoveredEl, pressedEls, preview>>
       ELSE /\ pressedEls' = pressedEls \ {hoveredEl}
            /\ preview' = hide
            /\ hoveredEl' = Null
            /\ UNCHANGED touchErrors
  /\ activeTouches' = activeTouches - 1
  /\ lastTouch' = "touchend"
  /\ touchEvents' = touchEvents + 1
  /\ UNCHANGED keyboardVars

\* keyEl.onpointerdown = keyEl.onpointerover: with a button held the key
\* becomes pressed and previewed
PointerDown(k, buttons) ==
  /\ PointerEventsRegistered
  /\ pc \in {"idle", "threw"}
  /\ touchEvents < MaxTouchEvents
  /\ IF buttons # 0
       THEN /\ pressedEls' = pressedEls \cup {k}
            /\ preview' = show(k)
       ELSE UNCHANGED <<pressedEls, preview>>
  /\ lastTouch' = "pointerdown"
  /\ touchEvents' = touchEvents + 1
  /\ UNCHANGED <<hoveredEl, activeTouches, touchErrors>>
  /\ UNCHANGED keyboardVars

\* keyEl.onpointerout: the key is not pressed any more, the preview stays
PointerOut(k) ==
  /\ PointerEventsRegistered
  /\ pc \in {"idle", "threw"}
  /\ touchEvents < MaxTouchEvents
  /\ pressedEls' = pressedEls \ {k}
  /\ lastTouch' = "pointerout"
  /\ touchEvents' = touchEvents + 1
  /\ UNCHANGED <<hoveredEl, preview, activeTouches, touchErrors>>
  /\ UNCHANGED keyboardVars

\* a pointerup whose target is not a key: only the document listener, added
\* by the KeyPressPreview constructor, runs and hides the preview
DocPointerUp ==
  /\ pc \in {"idle", "threw"}
  /\ touchEvents < MaxTouchEvents
  /\ preview' = hide
  /\ lastTouch' = "docpointerup"
  /\ touchEvents' = touchEvents + 1
  /\ UNCHANGED <<hoveredEl, pressedEls, activeTouches, touchErrors>>
  /\ UNCHANGED keyboardVars

\* the keys a finger or the pointer is put on
PointerTargets == TouchTargets \cap AllKeys(variant)

TouchStartAny == \E hit \in TouchTargets : TouchStart(hit)

PointerDownAny == \E k \in PointerTargets, buttons \in {0, 1} : PointerDown(k, buttons)

PointerOutAny == \E k \in PointerTargets : PointerOut(k)

\* a pointerup on one of the keys under the finger or the pointer
TapAny == \E k \in PointerTargets : onPress(k) /\ UNCHANGED twin

TouchMoveAny == \E hit \in TouchTargets : TouchMove(hit)

Next == PressAny \/ RowCountShed \/ WidthShed \/ WidthNextRow \/ Finish

Spec == Init /\ [][Next]_vars

NextOverwide == PressAny \/ WidthShed \/ WidthNextRow \/ Finish

SpecOverwide == InitOverwide /\ [][NextOverwide]_vars

NextAutosort == PressAny \/ RowCountShed \/ Finish

\* the 3-row program alone
SpecAutosort == InitAutosort /\ [][NextAutosort]_vars

NextPart000 == PressAny \/ WidthShed \/ WidthNextRow \/ Finish

\* the 4-row program alone
SpecPart000 == InitPart000 /\ [][NextPart000]_vars

NextForeign ==
  PressAny \/ SortForeign \/ RowCountShed \/ WidthShed \/ WidthNextRow \/ Finish

\* both programs, with sortKeys also called on a key that is in no row
SpecForeign == Init /\ [][NextForeign]_vars

NextTwin == PressTwin \/ WidthShed \/ WidthNextRow \/ Finish

\* the width-budget program and the row-count procedure side by side
SpecTwin == InitTwin /\ [][NextTwin]_vars

NextTouch ==
  \/ TouchStartAny \/ TouchMoveAny \/ TouchEnd
  \/ PointerDownAny \/ PointerOutAny \/ DocPointerUp
  \/ TapAny \/ WidthShed \/ WidthNextRow \/ Finish

\* the touch and pointer events of the 4-row program: the key preview and
\* the presses of the keys under the finger
SpecTouch == InitPart000 /\ [][NextTouch]_vars

-----------------------------------------------------------------------------
(* Properties *)

\* a position returned by getKeyPos
At(r, c) == [found |-> TRUE, row |-> r, col |-> c]

\* a sequence without the occurrences of x
Without(s, x) == SelectSeq(s, LAMBDA y : y # x)

\* a sortKeys call has returned
Sorted == pc = "idle" /\ presses >= 1

\* C1 (partition invariant): in both variants, in every reachable layout, the
\* rows together hold every key created by the constructor exactly once: the
\* reading order has as many entries as there are keys and its members are
\* exactly the constructed keys.
C1_Partition ==
  LET ro == ReadingOrder(keys)
  IN  /\ Len(ro) = Cardinality(AllKeys(variant))
      /\ Range(ro) = AllKeys(variant)

C1_Witness ==
  /\ pc = "idle"
  /\ presses >= 2
  /\ \E r \in Rows(variant) : Range(keys[r]) # Range(InitialKeys(variant)[r])

\* C2 (top-left promotion): in both variants, from the promotion move to the
\* end of sortKeys(k) and until the next press, getKeyPos(k) is (0, 0): the
\* reflow never sheds the pressed key out of row 0.
C2_TopLeft ==
  presses >= 1 => getKeyPos(variant, keys, pressedKey) = At(0, 0)

C2_Witness ==
  /\ Sorted
  /\ variant = "part000"
  /\ oldRow = 3
  /\ before[0][1] # pressedKey
  /\ Len(keys[3]) >= 2

\* C3 (width-budget convergence): in the width-budget variant, after every
\* sortKeys call each row but the last is at most as wide as its
\* defaultRowWidth.
C3_WithinBudget ==
  (variant = "part000" /\ pc = "idle") =>
    \A r \in 0 .. (NUM_ROWS(variant) - 2) :
      rowWidth(variant, keys[r]) <= defaultRowWidth[r]

C3_Witness ==
  /\ variant = "part000"
  /\ Sorted
  /\ Len(keys[3]) >= 3
  /\ \E r \in 0 .. (NUM_ROWS(variant) - 2) :
       rowWidth(variant, keys[r]) < defaultRowWidth[r]

\* C4 (idempotence of re-press): in both variants, a sortKeys call on the key
\* found at (0, 0) returns with every row's key sequence as it was before the
\* call.
C4_RepressUnchanged ==
  (Sorted /\ oldRow = 0 /\ oldCol = 0) => (keys = before /\ rowEl = before)

C4_Witness ==
  /\ Sorted
  /\ presses = 2
  /\ oldRow = 0
  /\ oldCol = 0
  /\ keys # InitialKeys(variant)

\* the scenario of C5: the first press on the constructed 3-row keyboard is "m"
C5_Scenario ==
  /\ variant = "autosort"
  /\ pc = "idle"
  /\ presses = 1
  /\ pressedKey = "m"
  /\ before = InitialKeys("autosort")

\* C5 as stated: pressing "m" on the fresh 3-row keyboard ends with "m" at
\* (0, 0) and with "p" shed from row 0 to (1, 0).
C5_Original ==
  C5_Scenario =>
    /\ getKeyPos(variant, keys, "m") = At(0, 0)
    /\ getKeyPos(variant, keys, "p") = At(1, 0)

\* C5 (amended): pressing "m" on the fresh 3-row keyboard ends with "m" at
\* (0, 0) and with the backspace key, the last key of row 0, shed from row 0
\* to (1, 0); "p" stays in row 0, at column 10.
C5_BackspaceShed ==
  C5_Scenario =>
    /\ getKeyPos(variant, keys, "m") = At(0, 0)
    /\ getKeyPos(variant, keys, Backspace) = At(1, 0)
    /\ getKeyPos(variant, keys, "p") = At(0, 10)

C5_Witness == C5_Scenario /\ oldRow = 2 /\ oldCol = 6

\* C6 (move-to-front): in both variants, when sortKeys(k) has returned, the
\* reading order of the keys is k followed by the reading order before the
\* call without k.
C6_MoveToFront ==
  Sorted =>
    ReadingOrder(keys) = <<pressedKey>> \o Without(ReadingOrder(before), pressedKey)

C6_Witness ==
  /\ Sorted
  /\ presses = 2
  /\ oldRow >= 2
  /\ \E r \in Rows(variant) : Len(keys[r]) # Len(InitialKeys(variant)[r])

\* C7 (animation snapshot completeness): in every sortKeys call the elements
\* of the snapshot taken after the reflow are those of the snapshot taken
\* before it, and animateFlexItems finds an old entry for every new entry.
C7_SnapshotComplete ==
  Sorted =>
    /\ Range(newFlexItemsInfo) = Range(oldFlexItemsInfo)
    /\ Len(newFlexItemsInfo) = Len(oldFlexItemsInfo)
    /\ Len(animated) = Len(newFlexItemsInfo)
    /\ \A n \in 1..Len(animated) : animated[n].old # Undefined

C7_Witness ==
  /\ Sorted
  /\ newFlexItemsInfo # oldFlexItemsInfo
  /\ Len(animated) = Cardinality(AllKeys(variant))

\* C8 (termination of the width-budget reflow): in the width-budget variant
\* sortKeys never throws and never gets stuck; each while loop makes at most
\* as many moveKey calls as the row had keys when the loop began, and while
\* the call runs a next step of it exists.
C8_ReflowTerminates ==
  variant = "part000" =>
    /\ pc # "threw"
    /\ pc = "reflow" =>
         /\ whileMoves <= Len(whileRow)
         /\ ENABLED (WidthShed \/ WidthNextRow \/ Finish)

C8_Witness ==
  /\ variant = "part000"
  /\ pc = "reflow"
  /\ i >= 1
  /\ whileMoves >= 3
  /\ ~OverBudget(variant, keys, defaultRowWidth, i)

\* the case of C9: the while loop of row i has just ended, and a key wider
\* than the budget of row i was in that row when the loop began
C9_LoopEnded(k) ==
  /\ variant = "overwide"
  /\ pc = "reflow"
  /\ i < ReflowLimit(variant, oldRow)
  /\ ~OverBudget(variant, keys, defaultRowWidth, i)
  /\ Has(whileRow, k)
  /\ Width(variant, k) > defaultRowWidth[i]

\* C9 as stated: when a key wider than the row's budget is in the row during
\* the reflow, the loop ends with exactly that key left in the row.
C9_Original ==
  \A k \in AllKeys(variant) : C9_LoopEnded(k) => keys[i] = <<k>>

\* C9 (amended): when a key wider than the row's budget is in the row during
\* the reflow, the loop ends after at most as many moves as the row had keys,
\* and it has shed the over-wide key to the next row as well: the row ends
\* within its budget and without that key (empty when the key was its first).
C9_OverwideShed ==
  \A k \in AllKeys(variant) :
    C9_LoopEnded(k) =>
      /\ whileMoves >= 1
      /\ whileMoves <= Len(whileRow)
      /\ ~Has(keys[i], k)
      /\ Has(keys[i + 1], k)
      /\ rowWidth(variant, keys[i]) <= defaultRowWidth[i]
      /\ (whileRow[1] = k => keys[i] = <<>>)

C9_Witness ==
  /\ C9_LoopEnded(Spacebar)
  /\ whileRow[1] = Spacebar
  /\ keys[i] = <<>>
  /\ whileMoves = Len(whileRow)

\* C10 (model/visual lockstep): in both variants, in every reachable state,
\* mid-reflow included, the children of every rowEl are, in order, the
\* elements of the keys of that row.
C10_Lockstep ==
  \A r \in Rows(variant) : rowEl[r] = keys[r]

C10_Witness ==
  /\ pc = "reflow"
  /\ oldRow = 0
  /\ oldCol >= 1
  /\ i = 0
  /\ whileMoves = 0
  /\ keys # before
  /\ rowEl[0][1] = pressedKey

\* C11 (lookup failure aborts without change): when sortKeys is called with a
\* key that is in no row, getKeyPos reports the failure with console.error and
\* the call stops there: getKeyPos is the only call it made, no moveKey ran,
\* and the keys and the children of every row are as they were.
C11_LookupFailureAborts ==
  (presses >= 1 /\ pressedKey \in ForeignKeys) =>
    /\ pc = "threw"
    /\ consoleErrors >= 1
    /\ log = << EvLocate(pressedKey) >>
    /\ keys = before
    /\ rowEl = before

C11_Witness ==
  /\ pc = "threw"
  /\ pressedKey \in ForeignKeys
  /\ presses = 2
  /\ consoleErrors = 1
  /\ keys # InitialKeys(variant)

\* C12 (policy equivalence under equal widths): on a layout whose keys all
\* have the same width and whose rows start at their budgets, the
\* width-budget program and the row-count procedure, given the same presses,
\* have identical layouts after every press.
C12_EqualWidthsSameLayout ==
  (variant = "uniform" /\ pc = "idle") =>
    (keys = twin.keys /\ rowEl = twin.rowEl)

C12_Witness ==
  /\ variant = "uniform"
  /\ pc = "idle"
  /\ presses = 2
  /\ oldRow >= 2
  /\ Len(pressLog) = 2
  /\ pressLog[1] # pressLog[2]
  /\ keys = twin.keys

\* the presses after which C13 compares the two layouts: "m" alone
C13_PressedM ==
  /\ variant = "mixed"
  /\ pc = "idle"
  /\ pressLog = << "m" >>

\* C13 (policy divergence under heterogeneous widths): on the 3-row layout
\* with backspace 80 and enter 60 wide, after the single press "m" the two
\* procedures have different layouts: the width-budget program has shed
\* enter and "l" from row 1, the row-count procedure enter alone.
C13_MixedWidthsDiverge ==
  C13_PressedM =>
    /\ keys # twin.keys
    /\ getKeyPos(variant, keys, "l") = At(2, 0)
    /\ getKeyPos(variant, twin.keys, "l") = At(1, 9)
    /\ getKeyPos(variant, keys, Enter) = At(2, 1)
    /\ getKeyPos(variant, twin.keys, Enter) = At(2, 0)

C13_Witness == C13_PressedM /\ keys[0] = twin.keys[0] /\ keys[1] # twin.keys[1]

\* C14 (budget initialisation): in the width-budget variant, when the
\* constructor has returned and no press has been handled, the budgets of
\* rows 0..3 are 600, 550, 350 and 200, each the width of the keys of its row,
\* special key included.
C14_BudgetInitialised ==
  (variant = "part000" /\ presses = 0) =>
    /\ defaultRowWidth = (0 :> 600 @@ 1 :> 550 @@ 2 :> 350 @@ 3 :> 200)
    /\ \A r \in Rows(variant) : rowWidth(variant, keys[r]) = defaultRowWidth[r]

C14_Witness ==
  /\ variant = "part000"
  /\ presses = 0
  /\ pc = "idle"
  /\ keys[0][Len(keys[0])] = Backspace
  /\ keys[1][Len(keys[1])] = Enter
  /\ keys[3] = << Spacebar >>

\* C15 (budget is frozen): in the width-budget variant every row's
\* defaultRowWidth is, in every state, what the constructor left.
C15_BudgetFrozen ==
  variant = "part000" => defaultRowWidth = InitialDefaultRowWidth("part000")

C15_Witness ==
  /\ variant = "part000"
  /\ Sorted
  /\ presses = 2
  /\ Len(keys[3]) # Len(InitialKeys(variant)[3])
  /\ \E r \in Rows(variant) : rowWidth(variant, keys[r]) # defaultRowWidth[r]

\* C16 (moveKey precondition always met): in both variants, in every moveKey
\* call of every sortKeys run, the child at index fromCol of the source row is
\* the element of the moved key (the console.assert holds) and keys[fromCol]
\* of that row is the moved key.
C16_MoveKeyPrecondition ==
  /\ assertOk
  /\ \A n \in 1..Len(log) :
       log[n].op = "moveKey" => (log[n].assertOk /\ log[n].atCol = log[n].key)

C16_Witness ==
  /\ Sorted
  /\ presses = 2
  /\ Len(log) >= 7
  /\ log[4].op = "moveKey"
  /\ log[4].key # pressedKey

\* the moveKey calls of the running / last sortKeys, in order
MovesOf(l) == SelectSeq(l, LAMBDA e : e.op = "moveKey")

\* C17 (row-count reflow steps): in the 3-row variant, sortKeys on a key found
\* at row oldRow makes the promotion move and then exactly oldRow further
\* moveKey calls, the n-th of them taking the key that is last in row n-1 at
\* that moment to column 0 of row n.
C17_RowCountSteps ==
  (variant = "autosort" /\ presses >= 1) =>
    LET mv == MovesOf(log)
    IN  /\ Len(mv) >= 1
        /\ mv[1].key = pressedKey
        /\ mv[1].fromRow = oldRow /\ mv[1].fromCol = oldCol
        /\ mv[1].toRow = 0 /\ mv[1].toCol = 0
        /\ Len(mv) <= 1 + oldRow
        /\ (pc = "reflow" => Len(mv) = 1 + i)
        /\ (pc = "idle" => Len(mv) = 1 + oldRow)
        /\ \A n \in 2..Len(mv) :
             /\ mv[n].fromRow = n - 2
             /\ mv[n].toRow = n - 1
             /\ mv[n].toCol = 0
             /\ mv[n].rowLen >= 1
             /\ mv[n].fromCol = mv[n].rowLen - 1
             /\ mv[n].atCol = mv[n].key

C17_Witness ==
  /\ variant = "autosort"
  /\ Sorted
  /\ presses = 2
  /\ oldRow = 2
  /\ Len(MovesOf(log)) = 3
  /\ MovesOf(log)[2].key # Backspace

\* C18 (row-count frame): in the 3-row variant, sortKeys on a key found at
\* (oldRow, oldCol) leaves the keys of every row below oldRow as they were,
\* and the keys that were right of the pressed key in row oldRow are, in the
\* same order, the last keys of that row.
C18_RowCountFrame ==
  (variant = "autosort" /\ Sorted) =>
    /\ \A r \in Rows(variant) : r > oldRow => keys[r] = before[r]
    /\ LET right == SubSeq(before[oldRow], oldCol + 2, Len(before[oldRow]))
           now   == keys[oldRow]
       IN  /\ Len(now) >= Len(right)
           /\ SubSeq(now, Len(now) - Len(right) + 1, Len(now)) = right

C18_Witness ==
  /\ variant = "autosort"
  /\ Sorted
  /\ presses = 2
  /\ oldRow = 1
  /\ oldCol >= 1
  /\ oldCol + 1 < Len(before[1])
  /\ keys[2] = before[2]
  /\ keys[2] # InitialKeys(variant)[2]

\* C19 (snapshot ordering): in every sortKeys call the first snapshot is taken
\* right after getKeyPos and before the first moveKey (it shows the layout the
\* call began with), only moveKey calls follow until the second snapshot,
\* which shows the layout after the last moveKey, and animateFlexItems is the
\* last call.
C19_SnapshotOrdering ==
  presses >= 1 =>
    /\ Len(log) >= 3
    /\ log[1].op = "getKeyPos"
    /\ log[2].op = "getFlexItemsInfo"
    /\ log[2].info = ReadingOrder(before)
    /\ log[3].op = "moveKey"
    /\ (pc = "reflow" => \A n \in 3..Len(log) : log[n].op = "moveKey")
    /\ (pc = "idle" =>
          /\ \A n \in 3..(Len(log) - 2) : log[n].op = "moveKey"
          /\ log[Len(log) - 1].op = "getFlexItemsInfo"
          /\ log[Len(log) - 1].info = ReadingOrder(keys)
          /\ log[Len(log)].op = "animateFlexItems")

C19_Witness ==
  /\ Sorted
  /\ Len(log) >= 6
  /\ log[2].info # log[Len(log) - 1].info
  /\ log[Len(log)].op = "animateFlexItems"

RECURSIVE TextOf(_)
\* the text the presses ps produce according to the description of the keys:
\* a letter appends its label, backspace drops the last character (none when
\* the text is empty), enter appends a newline, the spacebar a space
TextOf(ps) ==
  IF ps = <<>> THEN <<>>
  ELSE LET t == TextOf(SubSeq(ps, 1, Len(ps) - 1))
           k == ps[Len(ps)]
       IN  CASE k = Backspace -> (IF t = <<>> THEN <<>> ELSE SubSeq(t, 1, Len(t) - 1))
             [] k = Enter -> t \o << "\n" >>
             [] k = Spacebar -> t \o << " " >>
             [] OTHER -> t \o << k >>

\* C20 (typed output follows press order): in both variants the text is, in
\* every state, the in-order fold of the actions of the keys pressed so far,
\* one action per press, wherever the keys sit.
C20_TextFollowsPresses ==
  /\ Len(pressLog) = presses
  /\ text = TextOf(pressLog)

C20_Witness ==
  /\ Sorted
  /\ presses = 2
  /\ pressLog[1] = Backspace
  /\ pressLog[2] = "m"
  /\ text = << "m" >>
  /\ getKeyPos(variant, keys, "m") = At(0, 0)
  /\ getKeyPos(variant, keys, Backspace) = At(0, 1)

\* C21 (row lengths under the row-count policy): in the 3-row variant, after
\* any sequence of presses row 0 holds 11 keys, row 1 holds 10 and row 2
\* holds 7, as at construction, and every row the reflow takes a last key
\* from is non-empty at that moment.
C21_RowLengthsKept ==
  variant = "autosort" =>
    /\ (pc = "idle" =>
          /\ Len(keys[0]) = 11 /\ Len(keys[1]) = 10 /\ Len(keys[2]) = 7
          /\ \A r \in Rows(variant) :
               /\ Len(keys[r]) = Len(InitialKeys(variant)[r])
               /\ Len(rowEl[r]) = Len(keys[r]))
    /\ \A n \in 1..Len(log) : log[n].op = "moveKey" => log[n].rowLen >= 1

C21_Witness ==
  /\ variant = "autosort"
  /\ Sorted
  /\ presses = 2
  /\ oldRow = 2
  /\ Len(MovesOf(log)) = 3
  /\ keys[1] # InitialKeys(variant)[1]
  /\ Len(keys[1]) = 10

\* the width of all keys of the keyboard
TotalWidth(v, ks) == SumWidths(v, ReadingOrder(ks))

\* C22 (overflow only drains downward): in the width-budget variant the sum
\* of all rows' widths is 1700 in every state, and after every sortKeys call
\* the last row is at least as wide as its budget of 200, hence not empty.
C22_DrainsDownward ==
  variant = "part000" =>
    /\ TotalWidth(variant, keys) = 1700
    /\ (pc = "idle" =>
          /\ defaultRowWidth[3] = 200
          /\ rowWidth(variant, keys[3]) >= defaultRowWidth[3]
          /\ keys[3] # <<>>)

C22_Witness ==
  /\ variant = "part000"
  /\ Sorted
  /\ pressedKey = Spacebar
  /\ oldRow = 3
  /\ ~Has(keys[3], Spacebar)
  /\ rowWidth(variant, keys[3]) = 200
  /\ Len(keys[3]) = 4

\* C23 (touch tracking never dereferences a missing key): in the 4-row
\* variant, for every sequence of touchstart, touchmove and touchend events,
\* each on a key or on a non-key area, no touch handler throws: whenever
\* touchend has run, hoveredEl was a key element, its pressed style was
\* removed, hoveredEl is null again and the preview is hidden.
C23_Original ==
  variant = "part000" =>
    /\ touchErrors = 0
    /\ (lastTouch = "touchend" =>
          /\ hoveredEl = Null
          /\ preview = hide)

====
